---- MODULE Spec2Model ----
(***************************************************************************)
(* Book service: the in-memory BookStorage (app/services/storage.py), the  *)
(* Book / BookCreate / BookUpdate validators (app/models/book_models.py)   *)
(* and the HTTP routes over them (app/api/routes/books.py).                *)
(*                                                                         *)
(* Python values are modelled as follows.                                  *)
(*   - a str that is inspected character by character (title, author, a    *)
(*     tag) is a sequence of one-character strings; an id, which is only   *)
(*     tested for emptiness, UUID syntax and dict-key equality, is a TLA+  *)
(*     string;                                                             *)
(*   - Optional[T] is None == <<>> or Some(v) == <<v>>;                    *)
(*   - a Book instance is an entry of heap, named by a reference; _books   *)
(*     holds references, so that two keys can hold the same object;        *)
(*   - the dict _books is the sequence of its (key, value) items in        *)
(*     insertion order;                                                    *)
(*   - float prices are integers (NaN and infinities are outside the       *)
(*     model); datetime.now() is the counter now.                          *)
(***************************************************************************)
EXTENDS Integers, Sequences, FiniteSets, TLC

VARIABLES
    heap,   \* the Book objects alive: heap[r] holds the fields of the object r
    books,  \* BookStorage._books: sequence of [k |-> key, v |-> reference]
    held,   \* the Book reference a direct caller of the storage holds (or NoRef)
    now,    \* the wall clock read by datetime.now()
    last    \* the last call: its arguments and its outcome

vars == <<heap, books, held, now, last>>

----------------------------------------------------------------------------
(* Bounds of the model *)

MaxNow == 1          \* the clock runs from 0 to MaxNow
TicksPerYear == 1    \* clock ticks in a calendar year

(* Program constants *)

MinYear == 1900      \* lower bound of published_year
StartYear == 2025    \* datetime.now().year when book_models.py is imported

HTTP_200_OK == 200
HTTP_201_CREATED == 201
HTTP_204_NO_CONTENT == 204
HTTP_400_BAD_REQUEST == 400
HTTP_404_NOT_FOUND == 404
HTTP_422_UNPROCESSABLE_ENTITY == 422
HTTP_500_INTERNAL_SERVER_ERROR == 500

----------------------------------------------------------------------------
(* Values *)

None == <<>>
Some(v) == <<v>>

NoRef == 0
Uuids == {"u1", "u2"}                 \* strings uuid.UUID() parses

\* str values, as character sequences
S_empty == <<>>
S_blank == <<" ">>
S_x == <<"x">>
S_y_padded == <<" ", "y", " ">>
S_y == <<"y">>

\* tags: "fi", its upper-case spelling "Fi", and "f", a substring of "fi"
T_fi == <<"f", "i">>
T_Fi == <<"F", "i">>
T_f == <<"f">>

\* datetime.now().year
YearOf(t) == StartYear + (t \div TicksPerYear)

----------------------------------------------------------------------------
(* str.strip() *)

RECURSIVE LStrip(_)
LStrip(s) ==
    IF s = <<>> THEN <<>>
    ELSE IF Head(s) = " " THEN LStrip(Tail(s)) ELSE s

RECURSIVE RStrip(_)
RStrip(s) ==
    IF s = <<>> THEN <<>>
    ELSE IF s[Len(s)] = " " THEN RStrip(SubSeq(s, 1, Len(s) - 1)) ELSE s

\* mutants: lstrip() for strip(), and no stripping at all
Strip_Left(s) == LStrip(s)
Strip_None(s) == s

Strip(s) == RStrip(LStrip(s))

----------------------------------------------------------------------------
(* Book (pydantic dataclass, validate_on_init): the constructor.           *)
(* a = [id, title, author, published_year, price, tags]; title, author,    *)
(* published_year and price are Optional here because the update route can *)
(* pass None, which the field types reject.                                *)

\* Book.validate_non_empty_strings: the value is accepted
validate_non_empty_strings_ok(v) == v # <<>> /\ Strip(v) # <<>>

\* Book.validate_year
validate_year_ok(v, t) == MinYear <= v /\ v <= YearOf(t)

\* Book.validate_price
validate_price_ok(v) == ~(v <= 0)

BookOk(a, t) ==
    /\ a.title # None /\ validate_non_empty_strings_ok(a.title[1])
    /\ a.author # None /\ validate_non_empty_strings_ok(a.author[1])
    /\ a.published_year # None /\ validate_year_ok(a.published_year[1], t)
    /\ a.price # None /\ validate_price_ok(a.price[1])

\* mutant: updated_at does not take the time of the construction
Book_StaleStamp(a, t) ==
    [id |-> a.id,
     title |-> Strip(a.title[1]),
     author |-> Strip(a.author[1]),
     published_year |-> a.published_year[1],
     price |-> a.price[1],
     tags |-> a.tags,
     created_at |-> t,
     updated_at |-> 0]

\* the instance a successful construction yields at clock t
Book(a, t) ==
    [id |-> a.id,
     title |-> Strip(a.title[1]),
     author |-> Strip(a.author[1]),
     published_year |-> a.published_year[1],
     price |-> a.price[1],
     tags |-> a.tags,
     created_at |-> t,
     updated_at |-> t]

----------------------------------------------------------------------------
(* The dict _books *)

Keys(bks) == {bks[i].k : i \in 1 .. Len(bks)}
Values(bks) == [i \in 1 .. Len(bks) |-> bks[i].v]
IndexOf(bks, key) == CHOOSE i \in 1 .. Len(bks) : bks[i].k = key

\* _books.get(key)
DictGet(bks, key) == IF key \in Keys(bks) THEN bks[IndexOf(bks, key)].v ELSE NoRef

\* mutant: an existing key is taken out and put in again, at the end
DictSet_MoveToEnd(bks, key, ref) ==
    Append(SelectSeq(bks, LAMBDA e : e.k # key), [k |-> key, v |-> ref])

\* _books[key] = ref: a new key goes last, an existing key keeps its place
DictSet(bks, key, ref) ==
    IF key \in Keys(bks)
    THEN [bks EXCEPT ![IndexOf(bks, key)] = [k |-> key, v |-> ref]]
    ELSE Append(bks, [k |-> key, v |-> ref])

\* del _books[key]
DictDel(bks, key) ==
    LET i == IndexOf(bks, key)
    IN SubSeq(bks, 1, i - 1) \o SubSeq(bks, i + 1, Len(bks))

----------------------------------------------------------------------------
(* BookStorage: each method as a function of the dict and the heap.        *)
(* status is "ok" or "error" (a BookStorageError), err its message.        *)

E_InvalidBook == "Invalid book object provided"
E_EmptyId == "Book ID cannot be empty"
E_Exists == "already exists"
E_Unexpected == "Unexpected error"

\* the error kind a BookStorageError message stands for
ErrorKind(err) ==
    IF err = E_Exists THEN "AlreadyExists"
    ELSE IF err \in {E_InvalidBook, E_EmptyId} THEN "InvalidArgument"
    ELSE "InternalStorageError"

\* mutant: no test for an id already present
create_book_NoDupCheck(bks, hp, book) ==
    IF book = NoRef
    THEN [status |-> "error", err |-> E_InvalidBook, books |-> bks, ret |-> NoRef]
    ELSE IF hp[book].id = ""
    THEN [status |-> "error", err |-> E_EmptyId, books |-> bks, ret |-> NoRef]
    ELSE [status |-> "ok", err |-> "", books |-> DictSet(bks, hp[book].id, book),
          ret |-> book]

\* mutant: the record is returned but not inserted
create_book_Unstored(bks, hp, book) ==
    IF book = NoRef
    THEN [status |-> "error", err |-> E_InvalidBook, books |-> bks, ret |-> NoRef]
    ELSE IF hp[book].id = ""
    THEN [status |-> "error", err |-> E_EmptyId, books |-> bks, ret |-> NoRef]
    ELSE IF hp[book].id \in Keys(bks)
    THEN [status |-> "error", err |-> E_Exists, books |-> bks, ret |-> NoRef]
    ELSE [status |-> "ok", err |-> "", books |-> bks, ret |-> book]

\* mutant: the record is stored before the id is found to be present
create_book_DupOverwrite(bks, hp, book) ==
    IF book = NoRef
    THEN [status |-> "error", err |-> E_InvalidBook, books |-> bks, ret |-> NoRef]
    ELSE IF hp[book].id = ""
    THEN [status |-> "error", err |-> E_EmptyId, books |-> bks, ret |-> NoRef]
    ELSE IF hp[book].id \in Keys(bks)
    THEN [status |-> "error", err |-> E_Exists,
          books |-> DictSet(bks, hp[book].id, book), ret |-> NoRef]
    ELSE [status |-> "ok", err |-> "", books |-> DictSet(bks, hp[book].id, book),
          ret |-> book]

\* BookStorage.create_book(book); book is a reference or NoRef (None)
create_book(bks, hp, book) ==
    IF book = NoRef
    THEN [status |-> "error", err |-> E_InvalidBook, books |-> bks, ret |-> NoRef]
    ELSE IF hp[book].id = ""
    THEN [status |-> "error", err |-> E_EmptyId, books |-> bks, ret |-> NoRef]
    ELSE IF hp[book].id \in Keys(bks)
    THEN [status |-> "error", err |-> E_Exists, books |-> bks, ret |-> NoRef]
    ELSE [status |-> "ok", err |-> "", books |-> DictSet(bks, hp[book].id, book),
          ret |-> book]

\* mutant: _books[book_id] for _books.get(book_id), a KeyError on an absent id
get_book_KeyError(bks, book_id) ==
    IF book_id = ""
    THEN [status |-> "error", err |-> E_EmptyId, ret |-> NoRef]
    ELSE IF book_id \in Keys(bks)
    THEN [status |-> "ok", err |-> "", ret |-> DictGet(bks, book_id)]
    ELSE [status |-> "error", err |-> E_Unexpected, ret |-> NoRef]

\* mutant: an empty id is answered None instead of raising
get_book_Swallow(bks, book_id) ==
    [status |-> "ok", err |-> "", ret |-> DictGet(bks, book_id)]

\* BookStorage.get_book(book_id)
get_book(bks, book_id) ==
    IF book_id = ""
    THEN [status |-> "error", err |-> E_EmptyId, ret |-> NoRef]
    ELSE [status |-> "ok", err |-> "", ret |-> DictGet(bks, book_id)]

\* mutant: an id without an entry gets one
update_book_Upsert(bks, hp, book_id, book) ==
    IF book_id = ""
    THEN [status |-> "error", err |-> E_EmptyId, books |-> bks, heap |-> hp,
          ret |-> NoRef]
    ELSE IF book = NoRef
    THEN [status |-> "error", err |-> E_InvalidBook, books |-> bks, heap |-> hp,
          ret |-> NoRef]
    ELSE [status |-> "ok", err |-> "",
          books |-> DictSet(bks, book_id, book),
          heap |-> [hp EXCEPT ![book].id = book_id],
          ret |-> IF book_id \in Keys(bks) THEN book ELSE NoRef]

\* BookStorage.update_book(book_id, book): book.id = book_id is an assignment
\* to the caller's object
update_book(bks, hp, book_id, book) ==
    IF book_id = ""
    THEN [status |-> "error", err |-> E_EmptyId, books |-> bks, heap |-> hp,
          ret |-> NoRef]
    ELSE IF book = NoRef
    THEN [status |-> "error", err |-> E_InvalidBook, books |-> bks, heap |-> hp,
          ret |-> NoRef]
    ELSE IF book_id \notin Keys(bks)
    THEN [status |-> "ok", err |-> "", books |-> bks, heap |-> hp, ret |-> NoRef]
    ELSE [status |-> "ok", err |-> "",
          books |-> DictSet(bks, book_id, book),
          heap |-> [hp EXCEPT ![book].id = book_id],
          ret |-> book]

\* mutant: del _books[book_id] without the membership test, a KeyError on an
\* absent id
delete_book_KeyError(bks, book_id) ==
    IF book_id = ""
    THEN [status |-> "error", err |-> E_EmptyId, books |-> bks, ret |-> FALSE]
    ELSE IF book_id \in Keys(bks)
    THEN [status |-> "ok", err |-> "", books |-> DictDel(bks, book_id), ret |-> TRUE]
    ELSE [status |-> "error", err |-> E_Unexpected, books |-> bks, ret |-> FALSE]

\* mutant: the dict is emptied
delete_book_All(bks, book_id) ==
    IF book_id = ""
    THEN [status |-> "error", err |-> E_EmptyId, books |-> bks, ret |-> FALSE]
    ELSE IF book_id \in Keys(bks)
    THEN [status |-> "ok", err |-> "", books |-> <<>>, ret |-> TRUE]
    ELSE [status |-> "ok", err |-> "", books |-> bks, ret |-> FALSE]

\* BookStorage.delete_book(book_id)
delete_book(bks, book_id) ==
    IF book_id = ""
    THEN [status |-> "error", err |-> E_EmptyId, books |-> bks, ret |-> FALSE]
    ELSE IF book_id \in Keys(bks)
    THEN [status |-> "ok", err |-> "", books |-> DictDel(bks, book_id), ret |-> TRUE]
    ELSE [status |-> "ok", err |-> "", books |-> bks, ret |-> FALSE]

\* lower case of a character sequence (for the mutant below)
LowerChar(c) == IF c = "F" THEN "f" ELSE c
Lower(str) == [i \in 1 .. Len(str) |-> LowerChar(str[i])]

\* mutant: the tags are compared without regard to case
TagIn_NoCase(tag, tags) == \E i \in 1 .. Len(tags) : Lower(tags[i]) = Lower(tag)

\* tag_filter in book.tags
TagIn(tag, tags) == \E i \in 1 .. Len(tags) : tags[i] = tag

\* book.tags and tag_filter in book.tags
TagMatch(b, tag) == b.tags # None /\ b.tags[1] # <<>> /\ TagIn(tag, b.tags[1])

RECURSIVE FilterRefs(_, _, _)
FilterRefs(refs, hp, tag) ==
    IF refs = <<>> THEN <<>>
    ELSE (IF TagMatch(hp[Head(refs)], tag) THEN <<Head(refs)>> ELSE <<>>)
         \o FilterRefs(Tail(refs), hp, tag)

\* mutant: if tag_filter is not None
FilterGiven_NotNone(tag_filter) == tag_filter # None

\* if tag_filter: a filter of None and the empty string are both falsy
FilterGiven(tag_filter) == tag_filter # None /\ tag_filter[1] # <<>>

RECURSIVE TaggedRefs(_, _)
TaggedRefs(refs, hp) ==
    IF refs = <<>> THEN <<>>
    ELSE (IF hp[Head(refs)].tags # None /\ hp[Head(refs)].tags[1] # <<>>
          THEN <<Head(refs)>> ELSE <<>>)
         \o TaggedRefs(Tail(refs), hp)

\* mutant: without a filter, only the records that have tags are listed
list_books_Tagged(bks, hp, tag_filter) ==
    IF FilterGiven(tag_filter)
    THEN [status |-> "ok", err |-> "", ret |-> FilterRefs(Values(bks), hp, tag_filter[1])]
    ELSE [status |-> "ok", err |-> "", ret |-> TaggedRefs(Values(bks), hp)]

\* BookStorage.list_books(tag_filter); tag_filter is None or Some(string)
list_books(bks, hp, tag_filter) ==
    IF FilterGiven(tag_filter)
    THEN [status |-> "ok", err |-> "", ret |-> FilterRefs(Values(bks), hp, tag_filter[1])]
    ELSE [status |-> "ok", err |-> "", ret |-> Values(bks)]

\* BookStorage.clear()
clear(bks) == <<>>

----------------------------------------------------------------------------------------------------------------------------------------
(* Object identity and lifetime. A Book that no dict entry and no caller   *)
(* refers to is gone, and references are names only: after every call the  *)
(* live objects are renumbered in the order the dict and then the caller   *)
(* reach them, so that one program state has one representation.           *)

RECURSIVE Distinct(_, _)
Distinct(seq, seen) ==
    IF seq = <<>> THEN <<>>
    ELSE IF Head(seq) \in seen THEN Distinct(Tail(seq), seen)
    ELSE <<Head(seq)>> \o Distinct(Tail(seq), seen \cup {Head(seq)})

RefOrder(bks, h) ==
    Distinct(Values(bks) \o (IF h = NoRef THEN <<>> ELSE <<h>>), {})

Rank(ord, r) ==
    IF \E i \in 1 .. Len(ord) : ord[i] = r
    THEN CHOOSE i \in 1 .. Len(ord) : ord[i] = r
    ELSE NoRef

\* the state after a call that leaves the heap hp, the dict bks, the caller's
\* reference h and the call record lst (a call that changed no object and no
\* reference leaves the numbering as it is)
Commit(hp, bks, h, lst) ==
    IF hp = heap /\ bks = books /\ h = held
    THEN /\ last' = lst
         /\ UNCHANGED <<heap, books, held>>
    ELSE LET ord == RefOrder(bks, h)
             rk == [r \in 0 .. Len(hp) |-> Rank(ord, r)]
         IN /\ heap' = [i \in 1 .. Len(ord) |-> hp[ord[i]]]
            /\ books' = [i \in 1 .. Len(bks) |-> [k |-> bks[i].k, v |-> rk[bks[i].v]]]
            /\ held' = rk[h]
            /\ last' = [lst EXCEPT !.ref = rk[@], !.ret = rk[@],
                                  !.items = [i \in 1 .. Len(@) |-> rk[@[i]]]]

----------------------------------------------------------------------------
(* The record of a call *)

Call(op) ==
    [op |-> op, id |-> "", ref |-> NoRef, rec |-> None, tag |-> None,
     req |-> None, status |-> "ok", err |-> "", ret |-> NoRef, items |-> <<>>,
     flag |-> FALSE, fresh |-> FALSE, again |-> FALSE, calls |-> <<>>,
     http |-> 0, error |-> "", message |-> ""]

\* a call of a storage method made by a route handler
StorageCall(fn, id) == [fn |-> fn, id |-> id]

\* the field values of the object behind a reference, as an Optional
Snapshot(hp, ref) == IF ref = NoRef THEN None ELSE Some(hp[ref])

----------------------------------------------------------------------------
(* Inputs *)

CtorIds == {""} \cup Uuids
PathIds == {"zz"} \cup Uuids

TagLists == {None, Some(<<>>), Some(<<T_fi, T_fi>>), Some(<<T_Fi>>)}
Filters == {None, Some(S_empty), Some(T_fi), Some(T_f)}

BaseArgs ==
    [id |-> "u1", title |-> Some(S_x), author |-> Some(S_x),
     published_year |-> Some(MinYear), price |-> Some(1), tags |-> None]

\* constructor arguments of a direct caller: valid ones under each id, an empty
\* id, and the base values with one field made invalid
ValidArgs ==
    {[BaseArgs EXCEPT !.tags = g] : g \in {None, Some(<<>>), Some(<<T_Fi>>)}}
    \cup {[BaseArgs EXCEPT !.title = Some(S_y_padded), !.published_year = Some(StartYear),
                           !.price = Some(2), !.tags = Some(<<T_fi, T_fi>>)]}

InvalidArgs ==
    {[BaseArgs EXCEPT !.title = Some(S_blank)],
     [BaseArgs EXCEPT !.author = None],
     [BaseArgs EXCEPT !.published_year = Some(StartYear + MaxNow + 1)],
     [BaseArgs EXCEPT !.price = Some(0)]}

CtorArgs ==
    {[a EXCEPT !.id = i] : a \in ValidArgs, i \in Uuids}
    \cup {[BaseArgs EXCEPT !.id = ""]}
    \cup InvalidArgs

----------------------------------------------------------------------------------------------------------------------------------------
(* A direct caller of the storage (the tests, the routes' module)          *)

\* the caller constructs Book(**a); a ValidationError leaves its hands as they were
NewBook ==
    /\ \E a \in CtorArgs :
        IF BookOk(a, now)
        THEN LET r == Len(heap) + 1
             IN Commit(Append(heap, Book(a, now)), books, r,
                       [Call("Book") EXCEPT !.ref = r, !.rec = Some(Book(a, now))])
        ELSE Commit(heap, books, held, [Call("Book") EXCEPT !.status = "error"])
    /\ UNCHANGED now

Create ==
    /\ \E b \in {NoRef, held} :
        LET r == create_book(books, heap, b)
        IN Commit(heap, r.books, held,
                  [Call("create") EXCEPT !.ref = b, !.rec = Snapshot(heap, b),
                      !.status = r.status, !.err = r.err, !.ret = r.ret])
    /\ UNCHANGED now

\* the call before was a delete_book of this id that found no entry
AfterAbsentDelete(lst, id) ==
    lst.op = "delete" /\ lst.id = id /\ lst.status = "ok" /\ ~lst.flag

\* the call before was a successful create_book of a record with this id
AfterCreate(lst, id) ==
    lst.op = "create" /\ lst.status = "ok" /\ lst.rec # None /\ lst.rec[1].id = id

\* the caller keeps the returned record, or not
Get ==
    /\ \E id \in CtorIds, take \in BOOLEAN :
        LET r == get_book(books, id)
        IN (take => r.ret # NoRef) /\ Commit(heap, books, IF take /\ r.ret # NoRef THEN r.ret ELSE held,
                  [Call("get") EXCEPT !.id = id, !.status = r.status,
                      !.err = r.err, !.ret = r.ret,
                      !.fresh = AfterCreate(last, id),
                      !.rec = IF AfterCreate(last, id) THEN last.rec ELSE None])
    /\ UNCHANGED now

Update ==
    /\ \E id \in CtorIds, b \in {NoRef, held} :
        LET r == update_book(books, heap, id, b)
        IN Commit(r.heap, r.books, held,
                  [Call("update") EXCEPT !.id = id, !.ref = b,
                      !.rec = Snapshot(heap, b), !.status = r.status,
                      !.err = r.err, !.ret = r.ret])
    /\ UNCHANGED now

Delete ==
    /\ \E id \in CtorIds :
        LET r == delete_book(books, id)
        IN Commit(heap, r.books, held,
                  [Call("delete") EXCEPT !.id = id, !.status = r.status,
                      !.err = r.err, !.flag = r.ret,
                      !.again = AfterAbsentDelete(last, id)])
    /\ UNCHANGED now

List ==
    /\ \E f \in Filters :
        LET r == list_books(books, heap, f)
        IN Commit(heap, books, held,
                  [Call("list") EXCEPT !.tag = f, !.status = r.status,
                      !.err = r.err, !.items = r.ret])
    /\ UNCHANGED now

Clear ==
    /\ Commit(heap, clear(books), held, Call("clear"))
    /\ UNCHANGED now

\* time passes
Tick ==
    /\ now < MaxNow
    /\ now' = now + 1
    /\ last' = Call("tick")
    /\ UNCHANGED <<heap, books, held>>

----------------------------------------------------------------------------
(* Request bodies. A field of a JSON body is absent, null or a value:      *)
(* Absent, Null, Val(v). The model's field then is None or Some(v).        *)

Absent == <<>>
Null == <<None>>
Val(v) == <<Some(v)>>

\* Field(min_length=1) and the "title"/"author" validator of BookCreate
non_empty_string_ok(v) == Len(v) >= 1 /\ Strip(v) # <<>>

\* Field(ge=1900, le=datetime.now().year): the bound is computed when the
\* class is defined
year_field_ok(v) == MinYear <= v /\ v <= StartYear

\* Field(gt=0)
price_field_ok(v) == v > 0

\* BookCreate(**body) validates
BookCreateOk(p) ==
    /\ p.title # Absent /\ p.title # Null /\ non_empty_string_ok(p.title[1][1])
    /\ p.author # Absent /\ p.author # Null /\ non_empty_string_ok(p.author[1][1])
    /\ p.published_year # Absent /\ p.published_year # Null
    /\ year_field_ok(p.published_year[1][1])
    /\ p.price # Absent /\ p.price # Null /\ price_field_ok(p.price[1][1])

\* the validated BookCreate: strings stripped, tags None unless given
BookCreate(p) ==
    [title |-> Strip(p.title[1][1]),
     author |-> Strip(p.author[1][1]),
     published_year |-> p.published_year[1][1],
     price |-> p.price[1][1],
     tags |-> IF p.tags = Absent THEN None ELSE p.tags[1]]

\* BookUpdate.validate_optional_non_empty_strings with Field(min_length=1)
validate_optional_non_empty_strings_ok(f) ==
    f = Absent \/ f = Null \/ (Len(f[1][1]) >= 1 /\ Strip(f[1][1]) # <<>>)

\* BookUpdate(**body) validates
BookUpdateOk(p) ==
    /\ validate_optional_non_empty_strings_ok(p.title)
    /\ validate_optional_non_empty_strings_ok(p.author)
    /\ (p.published_year = Absent \/ p.published_year = Null
            \/ year_field_ok(p.published_year[1][1]))
    /\ (p.price = Absent \/ p.price = Null \/ price_field_ok(p.price[1][1]))

\* a string field of the validated BookUpdate: v.strip() if v else v
Stripped(f) == IF f = Absent \/ f = Null THEN f ELSE Val(Strip(f[1][1]))

\* update_data.get(name, existing): f is the body's field, old the Optional
\* holding the existing record's value
FieldOr(f, old) == IF f = Absent THEN old ELSE f[1]

\* the arguments of Book(...) in the update route
MergedArgs(book_id, p, old) ==
    [id |-> book_id,
     title |-> FieldOr(Stripped(p.title), Some(old.title)),
     author |-> FieldOr(Stripped(p.author), Some(old.author)),
     published_year |-> FieldOr(p.published_year, Some(old.published_year)),
     price |-> FieldOr(p.price, Some(old.price)),
     tags |-> FieldOr(p.tags, old.tags)]

----------------------------------------------------------------------------
(* book_to_response: BookResponse(id=, title=, author=, published_year=,   *)
(* price=, tags=) against the fields BookResponse requires.                *)

BookResponseRequired ==
    {"id", "title", "author", "published_year", "price", "created_at", "updated_at"}

ResponseKwargs(b) ==
    [id |-> b.id, title |-> b.title, author |-> b.author,
     published_year |-> b.published_year, price |-> b.price, tags |-> b.tags]

\* TRUE when the conversion returns, FALSE when it raises BookStorageError
book_to_response_ok(b) == BookResponseRequired \subseteq DOMAIN ResponseKwargs(b)

\* mutant: no test of the id's syntax
IsUuid_Any(book_id) == TRUE

\* uuid.UUID(book_id) parses
IsUuid(book_id) == book_id \in Uuids

----------------------------------------------------------------------------
(* Request inputs *)

EmptyBody ==
    [title |-> Absent, author |-> Absent, published_year |-> Absent,
     price |-> Absent, tags |-> Absent]

CreateBodyA ==
    [title |-> Val(S_x), author |-> Val(S_x), published_year |-> Val(MinYear),
     price |-> Val(1), tags |-> Absent]

CreateBodyB ==
    [title |-> Val(S_y_padded), author |-> Val(S_x), published_year |-> Val(StartYear),
     price |-> Val(2), tags |-> Val(<<T_fi, T_fi>>)]

\* one field of a body made invalid
BadFields(body) ==
    {[body EXCEPT !.title = Val(s)] : s \in {S_empty, S_blank}}
    \cup {[body EXCEPT !.author = Val(s)] : s \in {S_empty, S_blank}}
    \cup {[body EXCEPT !.published_year = Val(y)] :
              y \in {MinYear - 1} \cup {YearOf(t) + 1 : t \in 0 .. MaxNow}}
    \cup {[body EXCEPT !.price = Val(v)] : v \in {0, -1}}

CreateBodies == {CreateBodyA, CreateBodyB} \cup BadFields(CreateBodyA)

UpdateBodies ==
    {EmptyBody,
     [EmptyBody EXCEPT !.title = Val(S_y_padded)],
     [EmptyBody EXCEPT !.title = Null],
     [EmptyBody EXCEPT !.price = Val(2), !.tags = Val(<<T_fi, T_fi>>)]}
    \cup BadFields(EmptyBody)

----------------------------------------------------------------------------
(* The routes (app/api/routes/books.py). FastAPI validates the body before *)
(* it calls the handler and answers 422 through                            *)
(* validation_exception_handler.                                           *)

Http(op, code, error, message) ==
    [Call(op) EXCEPT !.http = code, !.error = error, !.message = message,
                     !.status = IF code >= 400 THEN "error" ELSE "ok"]

\* POST /create-book
route_create_book ==
    /\ \E p \in CreateBodies, book_id \in Uuids :
        LET req == [Http("POST", 0, "", "") EXCEPT !.req = Some(p)]
        IN IF ~BookCreateOk(p)
           THEN Commit(heap, books, held,
                       [req EXCEPT !.http = HTTP_422_UNPROCESSABLE_ENTITY,
                           !.status = "error", !.error = "validation_error",
                           !.message = "Input validation failed"])
           ELSE LET d == BookCreate(p)
                    a == [id |-> book_id, title |-> Some(d.title),
                          author |-> Some(d.author),
                          published_year |-> Some(d.published_year),
                          price |-> Some(d.price), tags |-> d.tags]
                    b == Len(heap) + 1
                    hp == Append(heap, Book(a, now))
                    r == create_book(books, hp, b)
                IN IF ~BookOk(a, now)
                   THEN Commit(heap, books, held,
                               [req EXCEPT !.http = HTTP_422_UNPROCESSABLE_ENTITY,
                                   !.status = "error", !.error = "validation_error",
                                   !.message = "Invalid book data"])
                   ELSE IF r.status = "error" \/ ~book_to_response_ok(hp[b])
                   THEN Commit(hp, r.books, held,
                               [req EXCEPT !.id = book_id, !.ref = b, !.err = r.err,
                                   !.calls = <<StorageCall("create_book", book_id)>>,
                                   !.http = HTTP_500_INTERNAL_SERVER_ERROR,
                                   !.status = "error", !.error = "internal_error",
                                   !.message = "Failed to create book"])
                   ELSE Commit(hp, r.books, held,
                               [req EXCEPT !.id = book_id, !.ref = b, !.ret = b,
                                   !.calls = <<StorageCall("create_book", book_id)>>,
                                   !.http = HTTP_201_CREATED])
    /\ UNCHANGED now

\* GET /get-books/{book_id}
route_get_book ==
    /\ \E book_id \in PathIds :
        LET req == [Http("GET", 0, "", "") EXCEPT !.id = book_id]
            r == get_book(books, book_id)
        IN IF ~IsUuid(book_id)
           THEN Commit(heap, books, held,
                       [req EXCEPT !.http = HTTP_400_BAD_REQUEST, !.status = "error",
                           !.error = "validation_error",
                           !.message = "Invalid book ID format"])
           ELSE IF r.status = "ok" /\ r.ret = NoRef
           THEN Commit(heap, books, held,
                       [req EXCEPT !.calls = <<StorageCall("get_book", book_id)>>,
                           !.http = HTTP_404_NOT_FOUND, !.status = "error",
                           !.error = "http_error", !.message = "Book not found"])
           ELSE IF r.status = "error" \/ ~book_to_response_ok(heap[r.ret])
           THEN Commit(heap, books, held,
                       [req EXCEPT !.calls = <<StorageCall("get_book", book_id)>>,
                           !.err = r.err,
                           !.http = HTTP_500_INTERNAL_SERVER_ERROR,
                           !.status = "error", !.error = "internal_error",
                           !.message = "Failed to retrieve book"])
           ELSE Commit(heap, books, held,
                       [req EXCEPT !.calls = <<StorageCall("get_book", book_id)>>,
                           !.http = HTTP_200_OK, !.ret = r.ret])
    /\ UNCHANGED now

\* mutant: the handler awaits between its get_book and its update_book
AwaitsBetweenGetAndUpdate_Yes == TRUE

\* the update handler is a coroutine (async def) without an await: from its
\* get_book to its update_book it does not give way to another request
AwaitsBetweenGetAndUpdate == FALSE

\* what another request can have made of the dict while the update handler
\* gave way: nothing, or a delete-by-id of the same id
DuringAwait(bks, book_id) ==
    IF AwaitsBetweenGetAndUpdate THEN {bks, delete_book(bks, book_id).books} ELSE {bks}

\* PUT /books/{book_id}
route_update_book ==
    /\ \E book_id \in PathIds, p \in UpdateBodies :
      \E bks \in DuringAwait(books, book_id) :
        LET req == [Http("PUT", 0, "", "") EXCEPT !.id = book_id, !.req = Some(p)]
            g == get_book(books, book_id)
        IN IF ~BookUpdateOk(p)
           THEN Commit(heap, books, held,
                       [req EXCEPT !.http = HTTP_422_UNPROCESSABLE_ENTITY,
                           !.status = "error", !.error = "validation_error",
                           !.message = "Input validation failed"])
           ELSE IF ~IsUuid(book_id)
           THEN Commit(heap, books, held,
                       [req EXCEPT !.http = HTTP_400_BAD_REQUEST, !.status = "error",
                           !.error = "validation_error",
                           !.message = "Invalid book ID format"])
           ELSE IF g.status = "error"
           THEN Commit(heap, books, held,
                       [req EXCEPT !.calls = <<StorageCall("get_book", book_id)>>,
                           !.err = g.err,
                           !.http = HTTP_500_INTERNAL_SERVER_ERROR,
                           !.status = "error", !.error = "internal_error",
                           !.message = "Failed to update book"])
           ELSE IF g.ret = NoRef
           THEN Commit(heap, books, held,
                       [req EXCEPT !.calls = <<StorageCall("get_book", book_id)>>,
                           !.http = HTTP_404_NOT_FOUND, !.status = "error",
                           !.error = "http_error", !.message = "Book not found"])
           ELSE LET a == MergedArgs(book_id, p, heap[g.ret])
                    b == Len(heap) + 1
                    hp == Append(heap, Book(a, now))
                    r == update_book(bks, hp, book_id, b)
                IN IF ~BookOk(a, now)
                   THEN Commit(heap, bks, held,
                               [req EXCEPT !.calls = <<StorageCall("get_book", book_id)>>,
                                   !.http = HTTP_422_UNPROCESSABLE_ENTITY,
                                   !.status = "error", !.error = "validation_error",
                                   !.message = "Invalid update data"])
                   ELSE IF r.status = "error" \/ ~book_to_response_ok(r.heap[b])
                   THEN Commit(r.heap, r.books, held,
                               [req EXCEPT !.ref = b, !.err = r.err,
                                   !.flag = (r.ret # NoRef),
                                   !.rec = Some(heap[g.ret]),
                                   !.calls = <<StorageCall("get_book", book_id),
                                               StorageCall("update_book", book_id)>>,
                                   !.http = HTTP_500_INTERNAL_SERVER_ERROR,
                                   !.status = "error", !.error = "internal_error",
                                   !.message = "Failed to update book"])
                   ELSE Commit(r.heap, r.books, held,
                               [req EXCEPT !.ref = b, !.ret = b,
                                   !.flag = (r.ret # NoRef),
                                   !.rec = Some(heap[g.ret]),
                                   !.calls = <<StorageCall("get_book", book_id),
                                               StorageCall("update_book", book_id)>>,
                                   !.http = HTTP_200_OK])
    /\ UNCHANGED now

\* DELETE /books/{book_id}
route_delete_book ==
    /\ \E book_id \in PathIds :
        LET req == [Http("DELETE", 0, "", "") EXCEPT !.id = book_id]
            r == delete_book(books, book_id)
        IN IF ~IsUuid(book_id)
           THEN Commit(heap, books, held,
                       [req EXCEPT !.http = HTTP_400_BAD_REQUEST, !.status = "error",
                           !.error = "validation_error",
                           !.message = "Invalid book ID format"])
           ELSE IF r.status = "error"
           THEN Commit(heap, r.books, held,
                       [req EXCEPT !.calls = <<StorageCall("delete_book", book_id)>>,
                           !.err = r.err,
                           !.http = HTTP_500_INTERNAL_SERVER_ERROR,
                           !.status = "error", !.error = "internal_error",
                           !.message = "Failed to delete book"])
           ELSE IF ~r.ret
           THEN Commit(heap, r.books, held,
                       [req EXCEPT !.calls = <<StorageCall("delete_book", book_id)>>,
                           !.http = HTTP_404_NOT_FOUND, !.status = "error",
                           !.error = "http_error", !.message = "Book not found"])
           ELSE Commit(heap, r.books, held,
                       [req EXCEPT !.calls = <<StorageCall("delete_book", book_id)>>,
                           !.http = HTTP_204_NO_CONTENT, !.flag = TRUE])
    /\ UNCHANGED now

\* GET /get-books?tag=
route_list_books ==
    /\ \E tag \in Filters :
        LET req == [Http("LIST", 0, "", "") EXCEPT !.tag = tag]
            r == list_books(books, heap, tag)
        IN IF r.status = "error"
                \/ \E i \in 1 .. Len(r.ret) : ~book_to_response_ok(heap[r.ret[i]])
           THEN Commit(heap, books, held,
                       [req EXCEPT !.calls = <<StorageCall("list_books", "")>>,
                           !.err = r.err,
                           !.http = HTTP_500_INTERNAL_SERVER_ERROR,
                           !.status = "error", !.error = "internal_error",
                           !.message = "Failed to retrieve books"])
           ELSE Commit(heap, books, held,
                       [req EXCEPT !.calls = <<StorageCall("list_books", "")>>,
                           !.http = HTTP_200_OK, !.items = r.ret])
    /\ UNCHANGED now

----------------------------------------------------------------------------
Init ==
    /\ heap = <<>>
    /\ books = <<>>
    /\ held = NoRef
    /\ now = 0
    /\ last = Call("init")

Next == NewBook \/ Create \/ Get \/ Update \/ Delete \/ List \/ Clear

Spec == Init /\ [][Next]_vars

\* the service behind its routes
NextApi ==
    \/ route_create_book
    \/ route_get_book
    \/ route_update_book
    \/ route_delete_book
    \/ route_list_books
    \/ Tick

SpecApi == Init /\ [][NextApi]_vars

----------------------------------------------------------------------------
(* Properties *)

\* the record stored under the i-th entry of the dict
Stored(i) == heap[books[i].v]

\* the entries whose record carries tag t in its tags
Tagged(t) ==
    {i \in 1 .. Len(books) :
        /\ Stored(i).tags # None
        /\ \E j \in 1 .. Len(Stored(i).tags[1]) : Stored(i).tags[1][j] = t}

\* str is empty or consists of blanks only
IsBlank(str) == \A i \in 1 .. Len(str) : str[i] = " "

\* str is non-empty and has no blank at either end
IsTrimmed(str) == Len(str) >= 1 /\ str[1] # " " /\ str[Len(str)] # " "

\* C1: a create_book of a record whose id is a key of the dict fails with
\* AlreadyExists and changes nothing; a create_book succeeds only for an id
\* that was not a key, and adds exactly that key. Two successful creates of
\* one id are therefore separated by a removal of it.
C1_CreateExistingFails ==
    [][last'.op = "create" /\ last'.rec # None =>
          /\ last'.rec[1].id \in Keys(books) =>
                /\ last'.status = "error"
                /\ ErrorKind(last'.err) = "AlreadyExists"
                /\ books' = books /\ heap' = heap
          /\ last'.status = "ok" =>
                /\ last'.rec[1].id \notin Keys(books)
                /\ Keys(books') = Keys(books) \cup {last'.rec[1].id}
                /\ Len(books') = Len(books) + 1]_vars

C1_Witness ==
    /\ last.op = "create" /\ last.status = "error"
    /\ ErrorKind(last.err) = "AlreadyExists"
    /\ last.rec[1].id \in Keys(books)

\* C2: no two entries of the dict hold records with the same id.
C2_UniqueIds ==
    \A i, j \in 1 .. Len(books) : i # j => Stored(i).id # Stored(j).id

\* C3: a successful update_book(id, candidate) leaves under id a record whose
\* id is id, and the id of the record under a key never changes while the
\* key stays in the dict.
C3_IdStable ==
    [][/\ (last'.op = "update" /\ last'.status = "ok" /\ last'.ret # NoRef) =>
              /\ last'.id \in Keys(books')
              /\ heap'[DictGet(books', last'.id)].id = last'.id
       /\ \A key \in Keys(books) \cap Keys(books') :
              heap'[DictGet(books', key)].id = heap[DictGet(books, key)].id]_vars

\* C4: get_book(r.id) right after a successful create_book(r) returns a
\* record equal to r in every field.
C4_CreateGetRoundTrip ==
    (last.op = "get" /\ last.fresh) =>
        /\ last.status = "ok"
        /\ last.ret # NoRef
        /\ heap[last.ret] = last.rec[1]
        /\ \A f \in {"id", "title", "author", "published_year", "price", "tags",
                     "created_at", "updated_at"} :
               heap[last.ret][f] = last.rec[1][f]

C4_Witness ==
    /\ last.op = "get" /\ last.fresh
    /\ last.ret # NoRef
    /\ heap[last.ret].tags = Some(<<T_fi, T_fi>>)
    /\ Len(books) = 2

\* C5: every record in the dict has a non-empty title and author without
\* surrounding blanks, a published_year from 1900 to the current year, and
\* a price above 0.
C5_StoredRecordsValid ==
    \A i \in 1 .. Len(books) :
        /\ IsTrimmed(Stored(i).title)
        /\ IsTrimmed(Stored(i).author)
        /\ 1900 <= Stored(i).published_year
        /\ Stored(i).published_year <= YearOf(now)
        /\ Stored(i).price > 0

C5_Witness ==
    /\ last.op = "PUT" /\ last.ref # NoRef
    /\ last.req[1].title = Val(S_y_padded)
    /\ heap[DictGet(books, last.id)].title = S_y
    /\ Len(books) = 2

\* the body has a blank title or author, a published_year of 1899 or of the
\* year after the current one, or a price of 0 or less
C6_Invalid(p, t) ==
    \/ p.title # Absent /\ p.title # Null /\ IsBlank(p.title[1][1])
    \/ p.author # Absent /\ p.author # Null /\ IsBlank(p.author[1][1])
    \/ p.published_year # Absent /\ p.published_year # Null
           /\ p.published_year[1][1] \in {1899, YearOf(t) + 1}
    \/ p.price # Absent /\ p.price # Null /\ p.price[1][1] <= 0

\* C6: a create or update request with such a body is answered 422 with
\* error "validation_error", and the dict and its records stay as they were.
C6_InvalidRejected ==
    [][(last'.op \in {"POST", "PUT"} /\ C6_Invalid(last'.req[1], now)) =>
          /\ last'.http = 422
          /\ last'.error = "validation_error"
          /\ books' = books /\ heap' = heap]_vars

C6_Witness ==
    /\ last.op = "PUT" /\ last.id \in Keys(books)
    /\ now = MaxNow
    /\ last.req[1].published_year = Val(YearOf(now) + 1)
    /\ last.http = 422

\* C7: list_books(t) with a non-empty t returns one element for each entry
\* whose record has t among its tags and nothing else, in particular no
\* record without tags, with no tags, or with t only in another case or
\* inside a longer tag.
C7_TagFilterExact ==
    (last.op = "list" /\ last.tag # None /\ last.tag[1] # <<>>) =>
        /\ last.status = "ok"
        /\ Len(last.items) = Cardinality(Tagged(last.tag[1]))
        /\ \A i \in Tagged(last.tag[1]) :
               \E n \in 1 .. Len(last.items) : last.items[n] = books[i].v
        /\ \A n \in 1 .. Len(last.items) :
               \E i \in Tagged(last.tag[1]) : last.items[n] = books[i].v

C7_Witness ==
    /\ last.op = "list" /\ last.tag = Some(T_fi)
    /\ Len(books) = 2
    /\ Len(last.items) = 1
    /\ \E i \in 1 .. Len(books) : Stored(i).tags = Some(<<T_Fi>>)

\* C8 as stated: whenever a filter string is given, the empty string
\* included, list_books returns only records whose tags contain it.
C8_AnyFilterFilters ==
    (last.op = "list" /\ last.tag # None) =>
        \A n \in 1 .. Len(last.items) :
            \E i \in Tagged(last.tag[1]) : last.items[n] = books[i].v

\* C8 amended: list_books returns every record when no filter is given or
\* the filter is the empty string, and only records whose tags contain the
\* filter when it is a non-empty string.
C8_EmptyFilterListsAll ==
    last.op = "list" =>
        IF last.tag = None \/ last.tag = Some(<<>>)
        THEN last.items = [i \in 1 .. Len(books) |-> books[i].v]
        ELSE \A n \in 1 .. Len(last.items) :
                 \E i \in Tagged(last.tag[1]) : last.items[n] = books[i].v

C8_Witness ==
    /\ last.op = "list" /\ last.tag = Some(<<>>)
    /\ Len(books) = 2
    /\ Len(last.items) = 2
    /\ Tagged(<<>>) = {}

\* C9: list_books() without a filter succeeds and returns one element for
\* each entry, as many as there are ids in the dict; none for an empty dict.
C9_ListAll ==
    (last.op = "list" /\ last.tag = None) =>
        /\ last.status = "ok"
        /\ Len(last.items) = Cardinality(Keys(books))
        /\ \A i \in 1 .. Len(books) : last.items[i] = books[i].v
        /\ books = <<>> => last.items = <<>>

C9_Witness ==
    /\ last.op = "list" /\ last.tag = None
    /\ Len(last.items) = 2
    /\ \E i \in 1 .. Len(books) : Stored(i).tags = None

\* C10: get_book(id) fails exactly when id is empty, and then with
\* InvalidArgument; for any other id it returns the record under id when
\* id is a key and None when it is not.
C10_GetTotal ==
    last.op = "get" =>
        /\ last.status = "error" <=> last.id = ""
        /\ last.status = "error" => ErrorKind(last.err) = "InvalidArgument"
        /\ last.id # "" /\ last.id \in Keys(books) =>
               last.ret # NoRef /\ last.ret = DictGet(books, last.id)
        /\ last.id # "" /\ last.id \notin Keys(books) => last.ret = NoRef

C10_Witness ==
    /\ last.op = "get" /\ last.id # "" /\ last.id \notin Keys(books)
    /\ last.status = "ok" /\ last.ret = NoRef
    /\ Len(books) = 1

\* C11: update_book(id, candidate) with a non-empty id that is not a key of
\* the dict, and a candidate that is a record, returns None without raising
\* and leaves the dict and every record as they were.
C11_UpdateAbsentNotFound ==
    [][(/\ last'.op = "update" /\ last'.id # "" /\ last'.ref # NoRef
        /\ last'.id \notin Keys(books)) =>
          /\ last'.status = "ok"
          /\ last'.ret = NoRef
          /\ books' = books /\ heap' = heap]_vars

C11_Witness ==
    /\ last.op = "update" /\ last.id # "" /\ last.ref # NoRef
    /\ last.id \notin Keys(books)
    /\ last.status = "ok" /\ last.ret = NoRef
    /\ Len(books) = 1

\* C12: a delete-by-id of an id that is a key of the dict gets True from
\* delete_book, removes that key and no other, and leaves the record under
\* every other key as it was; a get-by-id of a well-formed id that is not a
\* key gets None from get_book and is answered 404; and a key enters the dict
\* only through a create of that id.
C12_DeleteRemovesEntry ==
    [][/\ (last'.op = "DELETE" /\ last'.id \in Keys(books)) =>
              /\ last'.flag
              /\ last'.calls = <<StorageCall("delete_book", last'.id)>>
              /\ Keys(books') = Keys(books) \ {last'.id}
              /\ Len(books') = Len(books) - 1
              /\ \A key \in Keys(books') :
                     heap'[DictGet(books', key)] = heap[DictGet(books, key)]
       /\ (last'.op = "GET" /\ last'.id \in Uuids /\ last'.id \notin Keys(books)) =>
              /\ last'.calls = <<StorageCall("get_book", last'.id)>>
              /\ last'.ret = NoRef
              /\ last'.http = 404
       /\ \A key \in Keys(books') \ Keys(books) :
              last'.op = "POST" /\ last'.id = key]_vars

C12_Witness ==
    /\ last.op = "DELETE" /\ last.flag
    /\ last.id \notin Keys(books)
    /\ Len(books) = 1

\* C13: delete_book(id) with a non-empty id that is not a key of the dict
\* returns False without raising and leaves the dict and every record as
\* they were, the second time in a row as the first.
C13_DeleteAbsentFalse ==
    [][(last'.op = "delete" /\ last'.id # "" /\ last'.id \notin Keys(books)) =>
          /\ last'.status = "ok"
          /\ ~last'.flag
          /\ books' = books /\ heap' = heap]_vars

C13_Witness ==
    /\ last.op = "delete" /\ last.again
    /\ last.id # "" /\ last.id \notin Keys(books)
    /\ last.status = "ok" /\ ~last.flag
    /\ Len(books) = 1

\* the body of an update request is valid at clock t: every field it carries
\* is a non-blank title or author, a published_year from 1900 to the current
\* year, a price above 0, or a list of tags or null for tags
C14_Valid(p, t) ==
    /\ p.title = Absent \/ (p.title # Null /\ ~IsBlank(p.title[1][1]))
    /\ p.author = Absent \/ (p.author # Null /\ ~IsBlank(p.author[1][1]))
    /\ p.published_year = Absent
           \/ (/\ p.published_year # Null
               /\ 1900 <= p.published_year[1][1]
               /\ p.published_year[1][1] <= YearOf(t))
    /\ p.price = Absent \/ (p.price # Null /\ p.price[1][1] > 0)

\* new is old with the fields of the body p put in: a field absent from p is
\* as in old, a field present in p has p's value, strings without
\* surrounding blanks, and the id is the one of old
C14_Merged(p, old, new) ==
    /\ new.id = old.id
    /\ new.title = IF p.title = Absent THEN old.title
                   ELSE RStrip(LStrip(p.title[1][1]))
    /\ new.author = IF p.author = Absent THEN old.author
                    ELSE RStrip(LStrip(p.author[1][1]))
    /\ new.published_year = IF p.published_year = Absent THEN old.published_year
                            ELSE p.published_year[1][1]
    /\ new.price = IF p.price = Absent THEN old.price ELSE p.price[1][1]
    /\ new.tags = IF p.tags = Absent THEN old.tags ELSE p.tags[1]

C15_CreatedAtKept ==
    [][\A key \in Keys(books) \cap Keys(books') :
          heap'[DictGet(books', key)].created_at
              = heap[DictGet(books, key)].created_at]_vars

\* the step is an update_book or a delete_book of key that found its entry,
\* or a clear
C16_Touches(lst, key) ==
    \/ lst.op = "update" /\ lst.id = key /\ lst.status = "ok" /\ lst.ret # NoRef
    \/ lst.op = "delete" /\ lst.id = key /\ lst.flag
    \/ lst.op = "clear"

\* C16: a successful update_book(id, c) puts c, with id as its id, under id;
\* a get_book(id) returns the record under id; the record under id stays as
\* it is through every call that is not an update_book or a delete_book of
\* id (or a clear); and after a delete_book(id) the id is not a key, so that
\* get_book(id) returns None.
C16_UpdateReplaces ==
    [][/\ (last'.op = "update" /\ last'.status = "ok" /\ last'.ret # NoRef) =>
              /\ DictGet(books', last'.id) = last'.ret
              /\ heap'[last'.ret] = [last'.rec[1] EXCEPT !.id = last'.id]
       /\ (last'.op = "get" /\ last'.id \in Keys(books)) =>
              /\ last'.ret = DictGet(books', last'.id)
              /\ heap'[last'.ret] = heap[DictGet(books, last'.id)]
       /\ (last'.op = "get" /\ last'.id # "" /\ last'.id \notin Keys(books)) =>
              last'.ret = NoRef
       /\ (last'.op = "delete" /\ last'.flag) => last'.id \notin Keys(books')
       /\ \A key \in Keys(books) :
              ~C16_Touches(last', key) =>
                  /\ key \in Keys(books')
                  /\ heap'[DictGet(books', key)] = heap[DictGet(books, key)]]_vars

\* the body of a create request is valid at clock t: a non-blank title and
\* author, a published_year from 1900 to the current year, a price above 0
C17_Valid(p, t) ==
    /\ p.title # Absent /\ p.title # Null /\ ~IsBlank(p.title[1][1])
    /\ p.author # Absent /\ p.author # Null /\ ~IsBlank(p.author[1][1])
    /\ p.published_year # Absent /\ p.published_year # Null
    /\ 1900 <= p.published_year[1][1] /\ p.published_year[1][1] <= YearOf(t)
    /\ p.price # Absent /\ p.price # Null /\ p.price[1][1] > 0

\* C17: a create request with a valid body, for which an id not yet in the
\* dict is generated, is answered 201 with a record that has that id and
\* the submitted title, author, published_year, price and tags (None when
\* no tags were submitted), and that record is in the dict afterwards.
C17_CreateResponds201 ==
    [][(/\ last'.op = "POST" /\ C17_Valid(last'.req[1], now)
        /\ last'.id \notin Keys(books)) =>
          /\ last'.http = 201
          /\ last'.ret # NoRef
          /\ last'.id \in Uuids
          /\ DictGet(books', last'.id) = last'.ret
          /\ heap'[last'.ret].id = last'.id
          /\ heap'[last'.ret].title = RStrip(LStrip(last'.req[1].title[1][1]))
          /\ heap'[last'.ret].author = RStrip(LStrip(last'.req[1].author[1][1]))
          /\ heap'[last'.ret].published_year = last'.req[1].published_year[1][1]
          /\ heap'[last'.ret].price = last'.req[1].price[1][1]
          /\ heap'[last'.ret].tags
                 = IF last'.req[1].tags = Absent THEN None ELSE last'.req[1].tags[1]]_vars

\* C18: a create request whose create_book fails with AlreadyExists or
\* InvalidArgument is answered with a 4xx status, not a 5xx one.
C18_CreateFailureIs4xx ==
    [][(/\ last'.op = "POST"
        /\ last'.calls = <<StorageCall("create_book", last'.id)>>
        /\ last'.err # ""
        /\ ErrorKind(last'.err) \in {"AlreadyExists", "InvalidArgument"}) =>
          (400 <= last'.http /\ last'.http <= 499)]_vars

C22_OthersValid(op, p) ==
    /\ p.published_year # Absent /\ p.published_year # Null
    /\ IF op = "POST"
       THEN /\ p.title # Absent /\ p.title # Null /\ ~IsBlank(p.title[1][1])
            /\ p.author # Absent /\ p.author # Null /\ ~IsBlank(p.author[1][1])
            /\ p.price # Absent /\ p.price # Null /\ p.price[1][1] > 0
       ELSE /\ p.title = Absent \/ (p.title # Null /\ ~IsBlank(p.title[1][1]))
            /\ p.author = Absent \/ (p.author # Null /\ ~IsBlank(p.author[1][1]))
            /\ p.price = Absent \/ (p.price # Null /\ p.price[1][1] > 0)

\* C22: a create or update request whose body is valid in every other field
\* is rejected as invalid (422) exactly when its published_year is not from
\* 1900 to the calendar year at the moment of the request.
C22_YearBoundAtRequestTime ==
    [][(last'.op \in {"POST", "PUT"} /\ C22_OthersValid(last'.op, last'.req[1])) =>
          (last'.http # 422 <=>
               /\ 1900 <= last'.req[1].published_year[1][1]
               /\ last'.req[1].published_year[1][1] <= YearOf(now))]_vars

\* the messages of the BookStorageError the storage raises
C23_TypedFailures == {E_InvalidBook, E_EmptyId, E_Exists, E_Unexpected}

\* C23: every call of a storage method either returns a result of its kind
\* (a stored record or None, a boolean, a sequence of stored records) or
\* raises BookStorageError; and a call with an empty id or without a record
\* raises, it does not return as if nothing were wrong.
C23_ResultOrTypedFailure ==
    last.op \in {"create", "get", "update", "delete", "list", "clear"} =>
        /\ last.status \in {"ok", "error"}
        /\ last.status = "error" =>
               /\ last.err \in C23_TypedFailures
               /\ last.ret = NoRef /\ last.items = <<>> /\ ~last.flag
        /\ last.status = "ok" =>
               /\ last.err = ""
               /\ last.ret = NoRef \/ \E i \in 1 .. Len(books) : books[i].v = last.ret
               /\ \A n \in 1 .. Len(last.items) :
                      \E i \in 1 .. Len(books) : books[i].v = last.items[n]
               /\ last.flag \in BOOLEAN
        /\ (last.op \in {"get", "update", "delete"} /\ last.id = "") =>
               last.status = "error" /\ last.err = E_EmptyId
        /\ (last.op \in {"create", "update"} /\ last.ref = NoRef) =>
               last.status = "error"
        /\ last.op \in {"list", "clear"} => last.status = "ok"

C23_Witness ==
    /\ last.op = "update" /\ last.id \in Keys(books) /\ last.ref = NoRef
    /\ last.status = "error" /\ last.err = E_InvalidBook
    /\ Len(books) = 2

\* the request was an update-by-id that replaced the record under its id
C24_Replaced(lst, bks) ==
    /\ lst.op = "PUT" /\ lst.id \in Keys(bks)
    /\ lst.calls = <<StorageCall("get_book", lst.id),
                     StorageCall("update_book", lst.id)>>

\* C24 as stated: after an update-by-id has replaced a record, the stored
\* record's updated_at is the value it had before the update.
C24_UpdatedAtKept ==
    [][C24_Replaced(last', books) =>
          heap'[DictGet(books', last'.id)].updated_at
              = heap[DictGet(books, last'.id)].updated_at]_vars

\* C24 amended: after an update-by-id has replaced a record, the stored
\* record's updated_at is the time of the update, which is not before the
\* value it had.
C24_UpdatedAtRefreshed ==
    [][C24_Replaced(last', books) =>
          /\ heap'[DictGet(books', last'.id)].updated_at = now
          /\ heap'[DictGet(books', last'.id)].updated_at
                 >= heap[DictGet(books, last'.id)].updated_at]_vars

C24_Witness ==
    /\ C24_Replaced(last, books)
    /\ last.rec # None /\ last.rec[1].updated_at = 0
    /\ heap[DictGet(books, last.id)].updated_at = 1
    /\ now = 1

\* C25: the key of every entry of the dict is the id of the record stored
\* under it.
C25_KeyIsId ==
    \A i \in 1 .. Len(books) : Stored(i).id = books[i].k

\* C26: a call of a storage method that raises leaves the dict and every
\* record as they were: a create_book of an id already present leaves the
\* record under that id in place, and a call with an empty id changes
\* nothing.
C26_FailureChangesNothing ==
    [][/\ (/\ last'.op \in {"create", "get", "update", "delete", "list", "clear"}
           /\ last'.status = "error") =>
              books' = books /\ heap' = heap
       /\ (/\ last'.op = "create" /\ last'.rec # None
           /\ last'.rec[1].id \in Keys(books)) =>
              /\ last'.status = "error"
              /\ DictGet(books', last'.rec[1].id) = DictGet(books, last'.rec[1].id)
              /\ heap'[DictGet(books', last'.rec[1].id)]
                     = heap[DictGet(books, last'.rec[1].id)]
       /\ (last'.op \in {"get", "update", "delete"} /\ last'.id = "") =>
              last'.status = "error" /\ books' = books /\ heap' = heap
       /\ (last'.op = "create" /\ last'.rec # None /\ last'.rec[1].id = "") =>
              last'.status = "error" /\ books' = books /\ heap' = heap]_vars

C26_Witness ==
    /\ last.op = "create" /\ last.status = "error" /\ last.err = E_Exists
    /\ last.ref # NoRef
    /\ last.ref # DictGet(books, last.rec[1].id)
    /\ heap[last.ref].tags # heap[DictGet(books, last.rec[1].id)].tags

\* the keys of the dict in their order
KeySeq(bks) == [i \in 1 .. Len(bks) |-> bks[i].k]

\* the dict holds the same keys in the same order with the same records,
\* the same object under two keys before if and only if after
StoreUnchanged ==
    /\ KeySeq(books') = KeySeq(books)
    /\ \A i \in 1 .. Len(books) : heap'[books'[i].v] = heap[books[i].v]
    /\ \A i, j \in 1 .. Len(books) :
           (books'[i].v = books'[j].v) <=> (books[i].v = books[j].v)

\* C27: the set of keys changes only by a successful create_book, which adds
\* the record's id, a delete_book, which removes the given id, and a clear,
\* which removes all; an update_book leaves the set of keys as it is,
\* whatever the candidate's own id; get_book and list_books leave the dict
\* and the records as they are.
C27_KeysChangeOnlyByCreateDeleteClear ==
    [][/\ (last'.op = "create" /\ last'.status = "ok") =>
              Keys(books') = Keys(books) \cup {last'.rec[1].id}
       /\ (last'.op = "create" /\ last'.status = "error") => Keys(books') = Keys(books)
       /\ last'.op = "delete" => Keys(books') = Keys(books) \ {last'.id}
       /\ last'.op = "clear" => Keys(books') = {}
       /\ last'.op = "update" =>
              Keys(books') = Keys(books) /\ Len(books') = Len(books)
       /\ last'.op \in {"get", "list"} => StoreUnchanged
       /\ Keys(books') # Keys(books) => last'.op \in {"create", "delete", "clear"}]_vars

C27_Witness ==
    /\ last.op = "update" /\ last.status = "ok" /\ last.ret # NoRef
    /\ last.rec[1].id # last.id
    /\ last.rec[1].id \notin Keys(books)
    /\ Keys(books) = {last.id}

\* C28: a create or update request that is answered with a 4xx or 5xx
\* status leaves the dict and its records as they were.
C28_ErrorResponseChangesNothing ==
    [][(last'.op \in {"POST", "PUT"} /\ last'.http >= 400) =>
          /\ Len(books') = Len(books)
          /\ StoreUnchanged]_vars

\* a is b with some of its elements left out
RECURSIVE IsSubSeq(_, _)
IsSubSeq(a, b) ==
    IF a = <<>> THEN TRUE
    ELSE IF b = <<>> THEN FALSE
    ELSE IF Head(a) = Head(b) THEN IsSubSeq(Tail(a), Tail(b))
    ELSE IsSubSeq(a, Tail(b))

\* C29: the dict keeps its keys in the order in which create_book inserted
\* them: a successful create_book puts the id last, an update_book leaves
\* the order as it is, a delete_book takes the id out (so that a later
\* create_book of it puts it last); list_books without a filter returns the
\* records in that order, and with a filter some of them in that order.
C29_ListInInsertionOrder ==
    [][/\ (last'.op = "create" /\ last'.status = "ok") =>
              KeySeq(books') = Append(KeySeq(books), last'.rec[1].id)
       /\ last'.op = "update" => KeySeq(books') = KeySeq(books)
       /\ last'.op = "delete" =>
              LET id == last'.id
              IN KeySeq(books') = SelectSeq(KeySeq(books), LAMBDA k : k # id)
       /\ (last'.op = "list" /\ last'.tag = None) =>
              last'.items = [i \in 1 .. Len(books') |-> books'[i].v]
       /\ last'.op = "list" =>
              /\ KeySeq(books') = KeySeq(books)
              /\ IsSubSeq(last'.items, [i \in 1 .. Len(books') |-> books'[i].v])]_vars

C29_Witness ==
    /\ last.op = "update" /\ last.status = "ok" /\ last.ret # NoRef
    /\ Len(books) = 2
    /\ books[1].k = last.id
    /\ books[1].v # books[2].v

====
